---- MODULE Spec2Model ----
(***************************************************************************)
(* Model of src/src/yang-verify.c: verification of JSON leaf and leaf-list *)
(* values against YANG schema nodes (yang_verify_leaf,                     *)
(* yang_verify_leaf_list, yang_verify_json_type, yang_mandatory,           *)
(* regex_verify_value, verify_value_from_imported, yang_verify_value_type).*)
(*                                                                         *)
(* C strings are sequences of one-character strings.  A pointer that may   *)
(* be NULL is a sequence of length 0 (NULL) or 1 (the pointee).  A 64-bit  *)
(* integer (intmax_t, long, the int64 of a JSON number) is a record        *)
(* [neg, mag] with mag its decimal magnitude, most significant digit       *)
(* first, without leading zeros; a C int is a TLA+ integer in              *)
(* -2^31 .. 2^31-1.                                                        *)
(***************************************************************************)
EXTENDS Integers, Sequences, FiniteSets, TLC

\* ------------------------------------------------------------------ bounds
\* Frames the C stack can hold for the typedef recursion before it overflows.
MaxDepth == 3
\* Longest JSON array handed to yang_verify_leaf_list.
MaxListLen == 3

\* ------------------------------------------------------------ result codes
RE_OK == "RE_OK"
INVALID_TYPE == "INVALID_TYPE"
YANG_SCHEMA_ERROR == "YANG_SCHEMA_ERROR"
IDENTICAL_KEYS == "IDENTICAL_KEYS"

\* ------------------------------------------------------------ C strings
NULL == <<>>
Ptr(x) == <<x>>
Deref(p) == p[1]

DigitChars == <<"0", "1", "2", "3", "4", "5", "6", "7", "8", "9">>
DigitChar(d) == DigitChars[d + 1]
IsDigitChar(c) == \E d \in 0..9 : DigitChars[d + 1] = c
DigitVal(c) == CHOOSE d \in 0..9 : DigitChars[d + 1] = c
IsSpaceChar(c) == c = " "

\* strcmp(a, b) == 0
StrEq(a, b) == Len(a) = Len(b) /\ \A k \in 1..Len(a) : a[k] = b[k]

\* ------------------------------------------------- 64-bit decimal values
Zero64 == [neg |-> FALSE, mag |-> <<0>>]
INTMAX_MAX_MAG == <<9,2,2,3,3,7,2,0,3,6,8,5,4,7,7,5,8,0,7>>
INTMAX_MIN_MAG == <<9,2,2,3,3,7,2,0,3,6,8,5,4,7,7,5,8,0,8>>

RECURSIVE StripZeros(_)
StripZeros(m) ==
  IF Len(m) > 1 /\ m[1] = 0 THEN StripZeros(Tail(m)) ELSE m

\* magnitude a < magnitude b, both without leading zeros
MagLess(a, b) ==
  \/ Len(a) < Len(b)
  \/ /\ Len(a) = Len(b)
     /\ \E k \in 1..Len(a) :
          /\ a[k] < b[k]
          /\ \A h \in 1..(k - 1) : a[h] = b[h]

\* a < b for two 64-bit values
Less64(a, b) ==
  IF a.neg /\ ~b.neg THEN TRUE
  ELSE IF ~a.neg /\ b.neg THEN FALSE
  ELSE IF a.neg THEN MagLess(b.mag, a.mag)
  ELSE MagLess(a.mag, b.mag)

\* length of the longest prefix of s made of decimal digits
RECURSIVE DigitPrefixLen(_)
DigitPrefixLen(s) ==
  IF s # <<>> /\ IsDigitChar(s[1]) THEN 1 + DigitPrefixLen(Tail(s)) ELSE 0

RECURSIVE SkipSpace(_)
SkipSpace(s) ==
  IF s # <<>> /\ IsSpaceChar(s[1]) THEN SkipSpace(Tail(s)) ELSE s

\* strtoimax(s, NULL, 10) and strtol(s, NULL, 10) with a 64-bit long:
\* leading white space, an optional sign, the longest run of digits; no
\* digits gives 0; a value out of range saturates.
strtoimax(s) ==
  LET t == SkipSpace(s)
      signed == t # <<>> /\ t[1] \in {"-", "+"}
      neg == t # <<>> /\ t[1] = "-"
      u == IF signed THEN Tail(t) ELSE t
      n == DigitPrefixLen(u)
      mag == StripZeros([k \in 1..n |-> DigitVal(u[k])])
  IN IF n = 0 THEN Zero64
     ELSE IF mag = <<0>> THEN Zero64
     ELSE IF neg /\ MagLess(INTMAX_MIN_MAG, mag)
       THEN [neg |-> TRUE, mag |-> INTMAX_MIN_MAG]
     ELSE IF ~neg /\ MagLess(INTMAX_MAX_MAG, mag)
       THEN [neg |-> FALSE, mag |-> INTMAX_MAX_MAG]
     ELSE [neg |-> neg, mag |-> mag]

\* mag mod 2^32 as two 16-bit limbs <<hi, lo>>
RECURSIVE Mod32(_, _)
Mod32(mag, acc) ==
  IF mag = <<>> THEN acc
  ELSE LET t == acc[2] * 10 + mag[1]
           lo == t % 65536
           hi == (acc[1] * 10 + (t \div 65536)) % 65536
       IN Mod32(Tail(mag), <<hi, lo>>)

\* The conversion `int integer = <intmax_t>`: the low 32 bits of the value,
\* read as a two's complement int.
ToInt(v) ==
  LET m == Mod32(v.mag, <<0, 0>>)
      w == IF ~v.neg THEN m
           ELSE IF m[2] = 0 /\ m[1] = 0 THEN m
           ELSE IF m[2] = 0 THEN <<65536 - m[1], 0>>
           ELSE <<65535 - m[1], 65536 - m[2]>>
  IN IF w[1] >= 32768 THEN (w[1] - 65536) * 65536 + w[2]
     ELSE w[1] * 65536 + w[2]

\* ------------------------------------------------------------ JSON values
\* json-c objects.  A json_object* that is NULL has type json_type_null; an
\* object is a function from its keys to its members.
JNull == [kind |-> "null"]
JBool(b) == [kind |-> "boolean", b |-> b]
JInt(neg, mag) == [kind |-> "int", neg |-> neg, mag |-> mag]
JStr(s) == [kind |-> "string", str |-> s]
JObj(fields) == [kind |-> "object", fields |-> fields]
JArr(elems) == [kind |-> "array", elems |-> elems]
NoFields == [k \in {} |-> JNull]

json_object_get_type(v) == v.kind

\* json_object_get_string: NULL for a null object, the text of a string,
\* "true"/"false" for a boolean, the decimal form of an int64, and the
\* serialised JSON text for an (empty) object or array.
json_object_get_string(v) ==
  CASE v.kind = "null" -> NULL
    [] v.kind = "string" -> Ptr(v.str)
    [] v.kind = "boolean" ->
         Ptr(IF v.b THEN <<"t","r","u","e">> ELSE <<"f","a","l","s","e">>)
    [] v.kind = "int" ->
         Ptr((IF v.neg THEN <<"-">> ELSE <<>>)
             \o [k \in 1..Len(v.mag) |-> DigitChar(v.mag[k])])
    [] v.kind = "object" /\ v.fields = NoFields -> Ptr(<<"{", " ", "}">>)
    [] v.kind = "array" /\ v.elems = <<>> -> Ptr(<<"[", " ", "]">>)

json_object_array_length(v) == Len(v.elems)
json_object_array_get_idx(v, i) == v.elems[i + 1]

\* json_object_object_get_ex(obj, key, &out): out is NULL (json null) when
\* obj is not an object or has no such member
json_object_object_get_ex(obj, key) ==
  IF obj.kind = "object" /\ key \in DOMAIN obj.fields
    THEN obj.fields[key] ELSE JNull

json_object_get_boolean(v) ==
  CASE v.kind = "boolean" -> v.b
    [] v.kind = "int" -> v.mag # <<0>>
    [] v.kind = "string" -> Len(v.str) > 0
    [] OTHER -> FALSE

\* json_get_string(obj, key): the string form of member key, NULL when the
\* member is missing
json_get_string(obj, key) ==
  json_object_get_string(json_object_object_get_ex(obj, key))

\* ------------------------------------------------------------ regex
\* POSIX extended regular expressions over the subset used by the model:
\* literal characters, ".", a leading "^", a trailing "$"; an unmatched
\* "(" makes regcomp fail.
regcomp_fails(regex) == \E k \in 1..Len(regex) : regex[k] = "("

regexec_matches(regex, value) ==
  LET bol == regex # <<>> /\ regex[1] = "^"
      r1 == IF bol THEN Tail(regex) ELSE regex
      eol == r1 # <<>> /\ r1[Len(r1)] = "$"
      body == IF eol THEN SubSeq(r1, 1, Len(r1) - 1) ELSE r1
  IN \E off \in 0..Len(value) :
       /\ off + Len(body) <= Len(value)
       /\ bol => off = 0
       /\ eol => off + Len(body) = Len(value)
       /\ \A k \in 1..Len(body) :
            body[k] = "." \/ body[k] = value[off + k]

\* 1 if error else 0
regex_verify_value(regex, value) ==
  IF regcomp_fails(regex) THEN 1
  ELSE IF ~regexec_matches(regex, value) THEN 1
  ELSE 0

\* ------------------------------------------------------------ YANG names
YANG_TYPE == "type"
YANG_LEAF_TYPE == "leaf-type"
YANG_MANDATORY == "mandatory"

S_boolean == <<"b","o","o","l","e","a","n">>
S_empty == <<"e","m","p","t","y">>
S_identityref == <<"i","d","e","n","t","i","t","y","r","e","f">>
S_int8 == <<"i","n","t","8">>
S_int16 == <<"i","n","t","1","6">>
S_int32 == <<"i","n","t","3","2">>
S_int64 == <<"i","n","t","6","4">>
S_uint8 == <<"u","i","n","t","8">>
S_uint16 == <<"u","i","n","t","1","6">>
S_uint32 == <<"u","i","n","t","3","2">>
S_uint64 == <<"u","i","n","t","6","4">>
S_leafref == <<"l","e","a","f","r","e","f">>
S_decimal64 == <<"d","e","c","i","m","a","l","6","4">>
S_enumeration == <<"e","n","u","m","e","r","a","t","i","o","n">>
S_bits == <<"b","i","t","s">>
S_binary == <<"b","i","n","a","r","y">>
S_string == <<"s","t","r","i","n","g">>
S_instance_identifier ==
  <<"i","n","s","t","a","n","c","e","-","i","d","e","n","t","i","f","i","e","r">>
S_union == <<"u","n","i","o","n">>

\* the fixed table of YANG built-in type names
BuiltinTable ==
  << <<S_boolean, "BOOLEAN">>, <<S_empty, "EMPTY">>,
     <<S_identityref, "IDENTITY_REF">>, <<S_int8, "INT_8">>,
     <<S_int16, "INT_16">>, <<S_int32, "INT_32">>, <<S_int64, "INT_64">>,
     <<S_uint8, "UINT_8">>, <<S_uint16, "UINT_16">>,
     <<S_uint32, "UINT_32">>, <<S_uint64, "UINT_64">>,
     <<S_leafref, "LEAF_REF">>, <<S_decimal64, "DECIMAL_64">>,
     <<S_enumeration, "ENUMERATION">>, <<S_bits, "BITS">>,
     <<S_binary, "BINARY">>, <<S_string, "STRING">>,
     <<S_instance_identifier, "INSTANCE_IDENTIFIER">>,
     <<S_union, "UNION">> >>

\* str_to_yang_type: the category of a type name, NONE when it is not a
\* built-in name
str_to_yang_type(name) ==
  IF \E k \in 1..Len(BuiltinTable) : StrEq(BuiltinTable[k][1], name)
    THEN BuiltinTable[CHOOSE k \in 1..Len(BuiltinTable) :
                        StrEq(BuiltinTable[k][1], name)][2]
    ELSE "NONE"

\* yang_is_leaf: the node kind denotes a leaf or a leaf-list
yang_is_leaf(type_string) ==
  \/ StrEq(type_string, <<"l","e","a","f">>)
  \/ StrEq(type_string, <<"l","e","a","f","-","l","i","s","t">>)

\* ------------------------------------------------ yang_verify_json_type
\* 1 if the JSON kind is incorrect for the YANG type, else 0
yang_verify_json_type(type, val_type) ==
  CASE type = "BOOLEAN" -> IF val_type # "boolean" THEN 1 ELSE 0
    [] type = "EMPTY" -> IF val_type # "null" THEN 1 ELSE 0
    [] type = "IDENTITY_REF" -> 0
    [] type \in {"INT_8", "INT_16", "INT_32", "UINT_8", "UINT_16", "UINT_32"} ->
         IF val_type # "int" THEN 1 ELSE 0
    [] type = "LEAF_REF" -> 0
    [] type \in {"UINT_64", "INT_64"} ->
         IF val_type # "string" /\ val_type # "int" THEN 1 ELSE 0
    [] type \in {"DECIMAL_64", "ENUMERATION", "BITS", "BINARY", "STRING",
                 "INSTANCE_IDENTIFIER"} ->
         IF val_type # "string" THEN 1 ELSE 0
    [] type = "UNION" -> 0
    [] OTHER -> 0

\* ------------------------------------------------ yang_verify_value_type
\* leaf_type: the type name of a descriptor (an object's leaf-type member,
\* or the descriptor's own string form)
leaf_type_of(type) ==
  IF json_object_get_type(type) = "object"
    THEN Deref(json_get_string(type, YANG_LEAF_TYPE))
    ELSE Deref(json_object_get_string(type))

\* the categories that have a case in the switch of yang_verify_value_type;
\* every other category (NONE, and BINARY, which has no case) takes default
SwitchCases ==
  {"BOOLEAN", "EMPTY", "IDENTITY_REF", "INT_8", "INT_16", "INT_32", "UINT_8",
   "UINT_16", "UINT_32", "LEAF_REF", "UINT_64", "INT_64", "DECIMAL_64",
   "ENUMERATION", "BITS", "INSTANCE_IDENTIFIER", "STRING", "UNION"}

\* TRUE when the case of the switch returns 1.  `integer` is a C int.
switch_rejects(converted, value) ==
  LET integer == ToInt(strtoimax(value))
  IN CASE converted = "BOOLEAN" ->
            /\ ~StrEq(value, <<"t","r","u","e">>)
            /\ ~StrEq(value, <<"f","a","l","s","e">>)
            /\ ~StrEq(value, <<"1">>)
            /\ ~StrEq(value, <<"0">>)
       [] converted = "INT_8" -> integer < -128 \/ integer > 127
       [] converted = "INT_16" -> integer < -32768 \/ integer > 32767
       [] converted = "INT_32" ->
            integer < -2147483647 - 1 \/ integer > 2147483647
       [] converted = "UINT_8" -> integer < 0 \/ integer > 255
       [] converted = "UINT_16" -> integer < 0 \/ integer > 65535
       [] converted = "UINT_32" -> integer < 0
       \* UINT_64 compares an unsigned long with 0 and with 2^64-1
       [] converted = "UINT_64" -> FALSE
       [] OTHER -> FALSE

verify_type_of(converted) ==
  CASE converted \in {"INT_8", "INT_16", "INT_32", "UINT_8", "UINT_16",
                      "UINT_32", "UINT_64", "INT_64"} -> "RANGE"
    [] converted = "STRING" -> "PATTERN"
    [] OTHER -> "NONE"

\* case RANGE of the is_object block
range_check(type, value) ==
  LET from_string == json_get_string(type, "from")
      to_string == json_get_string(type, "to")
  IN IF from_string = NULL \/ to_string = NULL THEN 0
     ELSE LET from == strtoimax(Deref(from_string))
              to == strtoimax(Deref(to_string))
              integer == strtoimax(value)
          IN IF Less64(integer, from) \/ Less64(to, integer) THEN 1 ELSE 0

\* the index at which the json_array_forloop over the patterns stops: the
\* first pattern the value matches, else the array's length
pattern_loop_exit(patterns, value) ==
  LET n == json_object_array_length(patterns)
      hit == {index \in 0..(n - 1) :
                regex_verify_value(
                  Deref(json_object_get_string(
                          json_object_array_get_idx(patterns, index))),
                  value) = 0}
  IN IF hit = {} THEN n ELSE CHOOSE index \in hit : \A h \in hit : index <= h

\* case PATTERN of the is_object block
pattern_check(type, value) ==
  LET patterns == json_object_object_get_ex(type, "pattern")
  IN IF json_object_get_type(patterns) = "string"
       THEN regex_verify_value(Deref(json_object_get_string(patterns)), value)
     ELSE IF json_object_get_type(patterns) # "array" THEN 1
     ELSE IF json_object_array_length(patterns) = 0 THEN 0
     \* the loop breaks at a match or runs to the end; `return 1` follows it
     \* on both paths
     ELSE LET exit == pattern_loop_exit(patterns, value)
          IN IF exit < json_object_array_length(patterns) THEN 1 ELSE 1

\* yang_verify_value_type for a type name that has a case in the switch:
\* 0 if verified else 1
value_type_builtin(type, value) ==
  LET is_object == json_object_get_type(type) = "object"
      converted == str_to_yang_type(leaf_type_of(type))
      verify_type == verify_type_of(converted)
  IN IF switch_rejects(converted, value) THEN 1
     ELSE IF is_object /\ verify_type = "RANGE" THEN range_check(type, value)
     ELSE IF is_object /\ verify_type = "PATTERN"
       THEN pattern_check(type, value)
     ELSE 0

\* json_tokener_parse_verbose of a stored definition: NULL when the text is
\* not JSON
json_tokener_parse_verbose(raw) ==
  IF raw.wellformed THEN Ptr(raw.json) ELSE NULL

\* ------------------------------------------------------------ state
VARIABLES
  op,        \* the entry point called: "leaf", "leaf_list" or "mandatory"
  leaf,      \* the JSON value handed to the entry point
  yang,      \* the YANG schema node handed to the entry point
  typedefs,  \* the type-lookup store behind yang_for_type
  pc,        \* position of the call
  type,      \* yang_verify_value_type: the type descriptor being checked
  value,     \* yang_verify_value_type: the string value being checked
  i,         \* yang_verify_leaf_list: index of the outer loop
  depth,     \* frames of verify_value_from_imported on the stack
  ret,       \* value returned by the innermost yang_verify_value_type
  result     \* what the entry point returned

vars == <<op, leaf, yang, typedefs, pc, type, value, i, depth, ret, result>>

\* yang_for_type(name): the stored definition text, NULL when undefined
yang_for_type(name) ==
  IF name \in DOMAIN typedefs THEN typedefs[name] ELSE NULL

\* ------------------------------------------------------------ inputs
S_t1 == <<"t","1">>
S_t2 == <<"t","2">>
ImportedNames == {S_t1, S_t2}

IntValues ==
  { JInt(FALSE, <<0>>), JInt(FALSE, <<1>>), JInt(TRUE, <<1>>),
    JInt(FALSE, <<1,2,7>>), JInt(FALSE, <<1,2,8>>),
    JInt(TRUE, <<1,2,8>>), JInt(TRUE, <<1,2,9>>),
    JInt(FALSE, <<2,5,5>>), JInt(FALSE, <<2,5,6>>),
    JInt(FALSE, <<9,9,9>>),
    JInt(FALSE, <<3,2,7,6,7>>), JInt(FALSE, <<3,2,7,6,8>>),
    JInt(TRUE, <<3,2,7,6,8>>), JInt(TRUE, <<3,2,7,6,9>>),
    JInt(FALSE, <<6,5,5,3,5>>), JInt(FALSE, <<6,5,5,3,6>>),
    JInt(FALSE, <<2,1,4,7,4,8,3,6,4,7>>), JInt(FALSE, <<2,1,4,7,4,8,3,6,4,8>>),
    JInt(TRUE, <<2,1,4,7,4,8,3,6,4,8>>), JInt(TRUE, <<2,1,4,7,4,8,3,6,4,9>>) }

StringValues ==
  { JStr(<<>>), JStr(<<"a">>), JStr(<<"b">>), JStr(<<"a","b">>),
    JStr(<<"a","b","c">>), JStr(<<"1">>), JStr(<<"1","5">>),
    JStr(<<"2","5">>), JStr(<<"t","r","u","e">>) }

LeafValues ==
  IntValues \cup StringValues
    \cup {JNull, JBool(TRUE), JBool(FALSE), JObj(NoFields), JArr(<<>>)}

\* elements of the arrays handed to yang_verify_leaf_list
ListElems ==
  { JInt(FALSE, <<1>>), JStr(<<"1">>), JStr(<<"a">>), JInt(FALSE, <<9,9,9>>),
    JNull }

RECURSIVE SeqsUpTo(_, _)
SeqsUpTo(S, n) ==
  IF n = 0 THEN {<<>>}
  ELSE LET shorter == SeqsUpTo(S, n - 1)
       IN shorter \cup {Append(q, x) : q \in {r \in shorter : Len(r) = n - 1},
                                       x \in S}

ListValues ==
  {JArr(q) : q \in SeqsUpTo(ListElems, MaxListLen)}
    \cup {JStr(<<"a">>), JNull, JObj(NoFields)}

BuiltinNames == {BuiltinTable[k][1] : k \in 1..Len(BuiltinTable)}

PatternFields ==
  { JStr(<<"^","a">>), JStr(<<"b","$">>), JStr(<<"(">>), JInt(FALSE, <<5>>),
    JArr(<<>>), JArr(<<JStr(<<"^","a">>)>>),
    JArr(<<JStr(<<"b","$">>), JStr(<<"^","a">>)>>) }

\* structured type descriptors: a type name with optional refinements
StructuredTypes ==
  {JObj(YANG_LEAF_TYPE :> JStr(S_string))}
    \cup {JObj((YANG_LEAF_TYPE :> JStr(S_string)) @@ ("pattern" :> pf)) :
            pf \in PatternFields}
    \cup { JObj((YANG_LEAF_TYPE :> JStr(S_int32))
                @@ ("from" :> JStr(<<"1","0">>)) @@ ("to" :> JStr(<<"2","0">>))),
           JObj((YANG_LEAF_TYPE :> JStr(S_int8))
                @@ ("from" :> JStr(<<"1","0">>))),
           JObj(YANG_LEAF_TYPE :> JStr(S_t1)) }

TypeDescriptors ==
  {JStr(n) : n \in BuiltinNames \cup ImportedNames} \cup StructuredTypes

\* what the store holds for a name: nothing, text that is not JSON, or the
\* JSON text of a type descriptor
Definitions ==
  { NULL, Ptr([wellformed |-> FALSE]) }
    \cup { Ptr([wellformed |-> TRUE, json |-> d]) :
             d \in { JStr(S_int8), JStr(S_t1), JStr(S_t2),
                     JObj((YANG_LEAF_TYPE :> JStr(S_string))
                          @@ ("pattern" :> JStr(<<"^","a">>))) } }

Stores == [ImportedNames -> Definitions]
NoStore == [n \in ImportedNames |-> NULL]

\* the type name a descriptor declares is not a built-in with a switch case,
\* so the store is consulted
ConsultsStore(t) == str_to_yang_type(leaf_type_of(t)) \notin SwitchCases

LeafNode(t) == JObj((YANG_TYPE :> JStr(<<"l","e","a","f">>)) @@ (YANG_LEAF_TYPE :> t))
UntypedNode == JObj(YANG_TYPE :> JStr(<<"l","e","a","f">>))

NodeKinds ==
  { <<"l","e","a","f">>, <<"l","e","a","f","-","l","i","s","t">>,
    <<"c","o","n","t","a","i","n","e","r">>, <<"l","i","s","t">> }

\* schema nodes handed to yang_mandatory
MandatoryNodes ==
  LET kinds == {NoFields} \cup {YANG_TYPE :> JStr(k) : k \in NodeKinds}
      flags == {NoFields} \cup {YANG_MANDATORY :> JBool(b) : b \in BOOLEAN}
  IN {JObj(k @@ f) : k \in kinds, f \in flags}

Init ==
  /\ op \in {"leaf", "leaf_list", "mandatory"}
  /\ \/ /\ op = "leaf"
        /\ leaf \in LeafValues
        /\ yang \in {UntypedNode} \cup {LeafNode(t) : t \in TypeDescriptors}
     \/ /\ op = "leaf_list"
        /\ leaf \in ListValues
        /\ yang \in {UntypedNode} \cup {LeafNode(t) : t \in TypeDescriptors}
     \/ /\ op = "mandatory"
        /\ leaf = JNull
        /\ yang \in MandatoryNodes
  /\ typedefs \in
       IF /\ op # "mandatory"
          /\ yang # UntypedNode
          /\ ConsultsStore(json_object_object_get_ex(yang, YANG_LEAF_TYPE))
         THEN Stores ELSE {NoStore}
  /\ pc = "start"
  /\ type = JNull
  /\ value = <<>>
  /\ i = 0
  /\ depth = 0
  /\ ret = 0
  /\ result = "NONE"

\* ------------------------------------------------------------ operations
Inputs == <<op, leaf, yang, typedefs>>

\* an entry point returns code
Return(code) ==
  /\ pc' = "done"
  /\ result' = code
  /\ UNCHANGED <<Inputs, type, value, i, depth, ret>>

\* a call of yang_verify_value_type(t, v) from an entry point
CallValueType(t, v) ==
  /\ pc' = "value_type"
  /\ type' = t
  /\ value' = v
  /\ depth' = 0
  /\ UNCHANGED <<Inputs, i, ret, result>>

\* leaf_entry with the declared type looked up before the value's kind
leaf_entry_schema_first(l, y) ==
  LET value_type == json_object_get_type(l)
  IN IF json_object_object_get_ex(y, YANG_LEAF_TYPE) = JNull
       THEN YANG_SCHEMA_ERROR
     ELSE IF value_type = "object" \/ value_type = "array" THEN INVALID_TYPE
     ELSE IF json_object_get_string(l) = NULL THEN INVALID_TYPE
     ELSE "CALL"

\* yang_verify_leaf up to its call of yang_verify_value_type: the code it
\* returns early, or "CALL"
leaf_entry(l, y) ==
  LET value_type == json_object_get_type(l)
  IN IF value_type = "object" \/ value_type = "array" THEN INVALID_TYPE
     ELSE IF json_object_object_get_ex(y, YANG_LEAF_TYPE) = JNull
       THEN YANG_SCHEMA_ERROR
     ELSE IF json_object_get_string(l) = NULL THEN INVALID_TYPE
     ELSE "CALL"

\* the code yang_verify_leaf returns for the value yang_verify_value_type
\* returned
leaf_exit(r) == IF r # 0 THEN INVALID_TYPE ELSE RE_OK

yang_verify_leaf ==
  /\ pc = "start"
  /\ op = "leaf"
  /\ IF leaf_entry(leaf, yang) # "CALL"
       THEN Return(leaf_entry(leaf, yang))
       ELSE CallValueType(json_object_object_get_ex(yang, YANG_LEAF_TYPE),
                          Deref(json_object_get_string(leaf)))

yang_verify_leaf_return ==
  /\ pc = "return"
  /\ depth = 0
  /\ op = "leaf"
  /\ Return(leaf_exit(ret))

\* yang_verify_leaf_list up to its loop: the code it returns early, or "LOOP"
leaf_list_entry(list, y) ==
  IF json_object_get_type(list) # "array" THEN INVALID_TYPE
  ELSE IF json_object_object_get_ex(y, YANG_LEAF_TYPE) = JNull
    THEN YANG_SCHEMA_ERROR
  ELSE "LOOP"

yang_verify_leaf_list ==
  /\ pc = "start"
  /\ op = "leaf_list"
  /\ IF leaf_list_entry(leaf, yang) # "LOOP"
       THEN Return(leaf_list_entry(leaf, yang))
       ELSE /\ pc' = "loop"
            /\ i' = 0
            /\ UNCHANGED <<Inputs, type, value, depth, ret, result>>

\* the head of the outer loop and the first two statements of its body
leaf_list_item ==
  /\ pc = "loop"
  /\ IF ~(i < json_object_array_length(leaf)) THEN Return(RE_OK)
     ELSE LET item == json_object_array_get_idx(leaf, i)
          IN IF json_object_get_string(item) = NULL THEN Return(INVALID_TYPE)
             ELSE CallValueType(
                    json_object_object_get_ex(yang, YANG_LEAF_TYPE),
                    Deref(json_object_get_string(item)))

\* leaf_list_compare comparing the JSON values, not their string forms
leaf_list_compare_raw(list, idx, v) ==
  LET n == json_object_array_length(list)
      str(c) == json_object_get_string(json_object_array_get_idx(list, c))
      stop == {c \in (idx + 1)..(n - 1) :
                 \/ str(c) = NULL
                 \/ json_object_array_get_idx(list, c)
                      = json_object_array_get_idx(list, idx)}
  IN IF stop = {} THEN "NEXT"
     ELSE LET compare == CHOOSE c \in stop : \A d \in stop : c <= d
          IN IF str(compare) = NULL THEN INVALID_TYPE ELSE IDENTICAL_KEYS

\* leaf_list_compare comparing element idx with the elements before it
leaf_list_compare_backward(list, idx, v) ==
  LET str(c) == json_object_get_string(json_object_array_get_idx(list, c))
      stop == {c \in 0..(idx - 1) :
                 str(c) = NULL \/ StrEq(v, Deref(str(c)))}
  IN IF stop = {} THEN "NEXT"
     ELSE LET compare == CHOOSE c \in stop : \A d \in stop : c <= d
          IN IF str(compare) = NULL THEN INVALID_TYPE ELSE IDENTICAL_KEYS

\* the inner loop of yang_verify_leaf_list for element idx with string form
\* v: the code it returns, or "NEXT" when it runs to the end
leaf_list_compare(list, idx, v) ==
  LET n == json_object_array_length(list)
      str(c) == json_object_get_string(json_object_array_get_idx(list, c))
      stop == {c \in (idx + 1)..(n - 1) :
                 str(c) = NULL \/ StrEq(v, Deref(str(c)))}
  IN IF stop = {} THEN "NEXT"
     ELSE LET compare == CHOOSE c \in stop : \A d \in stop : c <= d
          IN IF str(compare) = NULL THEN INVALID_TYPE ELSE IDENTICAL_KEYS

\* the rest of the outer loop's body, once yang_verify_value_type returned
leaf_list_item_return ==
  /\ pc = "return"
  /\ depth = 0
  /\ op = "leaf_list"
  /\ IF ret # 0 THEN Return(INVALID_TYPE)
     ELSE IF leaf_list_compare(leaf, i, value) # "NEXT"
       THEN Return(leaf_list_compare(leaf, i, value))
     ELSE /\ pc' = "loop"
          /\ i' = i + 1
          /\ UNCHANGED <<Inputs, type, value, depth, ret, result>>

\* yang_verify_value_type for a type name with a case in the switch
yang_verify_value_type ==
  /\ pc = "value_type"
  /\ str_to_yang_type(leaf_type_of(type)) \in SwitchCases
  /\ ret' = value_type_builtin(type, value)
  /\ pc' = "return"
  /\ UNCHANGED <<Inputs, type, value, i, depth, result>>

\* what verify_value_from_imported does with the looked-up definition:
\* return 1, or call yang_verify_value_type on the parsed definition
imported_lookup(name) ==
  LET typedefinition == yang_for_type(name)
  IN IF typedefinition = NULL THEN [fail |-> TRUE]
     ELSE LET type_object == json_tokener_parse_verbose(Deref(typedefinition))
          IN IF type_object = NULL THEN [fail |-> TRUE]
             ELSE [fail |-> FALSE, type_object |-> Deref(type_object)]

\* the default case of yang_verify_value_type: verify_value_from_imported up
\* to its recursive call
verify_value_from_imported ==
  /\ pc = "value_type"
  /\ str_to_yang_type(leaf_type_of(type)) \notin SwitchCases
  /\ LET found == imported_lookup(leaf_type_of(type))
     IN IF found.fail
          THEN /\ ret' = 1
               /\ pc' = "return"
               /\ UNCHANGED <<Inputs, type, value, i, depth, result>>
          ELSE /\ depth < MaxDepth
               /\ depth' = depth + 1
               /\ type' = found.type_object
               /\ UNCHANGED <<Inputs, pc, value, i, ret, result>>

\* the recursive call finds no room left on the stack: the process dies
stack_overflow ==
  /\ pc = "value_type"
  /\ str_to_yang_type(leaf_type_of(type)) \notin SwitchCases
  /\ ~imported_lookup(leaf_type_of(type)).fail
  /\ depth = MaxDepth
  /\ pc' = "overflow"
  /\ UNCHANGED <<Inputs, type, value, i, depth, ret, result>>

\* verify_value_from_imported after its recursive call returned
verify_value_from_imported_return ==
  /\ pc = "return"
  /\ depth > 0
  /\ depth' = depth - 1
  /\ ret' = IF ret # 0 THEN 1 ELSE 0
  /\ UNCHANGED <<Inputs, pc, type, value, i, result>>

\* mandatory_result applying only to a node whose kind is present
mandatory_result_kind_required(y) ==
  LET type_string == json_get_string(y, YANG_TYPE)
      mandatory == json_object_object_get_ex(y, YANG_MANDATORY)
  IN IF type_string # NULL /\ yang_is_leaf(Deref(type_string))
       THEN IF mandatory # JNull /\ json_object_get_boolean(mandatory)
              THEN 1 ELSE 0
       ELSE 0

\* 1 if mandatory else 0
mandatory_result(y) ==
  LET type_string == json_get_string(y, YANG_TYPE)
      mandatory == json_object_object_get_ex(y, YANG_MANDATORY)
  IN IF type_string = NULL \/ yang_is_leaf(Deref(type_string))
       THEN IF mandatory # JNull /\ json_object_get_boolean(mandatory)
              THEN 1 ELSE 0
       ELSE 0

yang_mandatory ==
  /\ pc = "start"
  /\ op = "mandatory"
  /\ Return(mandatory_result(yang))

Next ==
  \/ yang_verify_leaf
  \/ yang_verify_leaf_return
  \/ yang_verify_leaf_list
  \/ leaf_list_item
  \/ leaf_list_item_return
  \/ yang_verify_value_type
  \/ verify_value_from_imported
  \/ stack_overflow
  \/ verify_value_from_imported_return
  \/ yang_mandatory

Spec == Init /\ [][Next]_vars

TypeOK ==
  /\ pc \in {"start", "loop", "value_type", "return", "done", "overflow"}
  /\ depth \in 0..MaxDepth
  /\ ret \in {0, 1}
  /\ IF op = "mandatory" /\ pc = "done"
       THEN result \in {0, 1}
       ELSE result \in {"NONE", RE_OK, INVALID_TYPE, YANG_SCHEMA_ERROR,
                        IDENTICAL_KEYS}

\* ------------------------------------------------------------ properties
\* What yang_verify_value_type(t, v) returns with the store as it is: 0 or
\* 1, or 2 when the typedef chain is longer than fuel definitions.
RECURSIVE value_type_outcome(_, _, _)
value_type_outcome(t, v, fuel) ==
  IF str_to_yang_type(leaf_type_of(t)) \in SwitchCases
    THEN value_type_builtin(t, v)
  ELSE LET found == imported_lookup(leaf_type_of(t))
       IN IF found.fail THEN 1
          ELSE IF fuel = 0 THEN 2
          ELSE value_type_outcome(found.type_object, v, fuel - 1)

\* a chain that does not end within as many steps as there are names in the
\* store visits a name twice
Outcome(t, v) == value_type_outcome(t, v, Cardinality(ImportedNames))

DeclaredType == json_object_object_get_ex(yang, YANG_LEAF_TYPE)
LeafDone == pc = "done" /\ op = "leaf"
ListDone ==
  /\ pc = "done"
  /\ op = "leaf_list"
  /\ json_object_get_type(leaf) = "array"
  /\ DeclaredType # JNull
ElemStr(k) == json_object_get_string(json_object_array_get_idx(leaf, k))
ListIdx == 0..(json_object_array_length(leaf) - 1)

\* decimal magnitude + 1
RECURSIVE DecSucc(_)
DecSucc(m) ==
  IF m = <<>> THEN <<1>>
  ELSE IF m[Len(m)] < 9 THEN [m EXCEPT ![Len(m)] = @ + 1]
  ELSE Append(DecSucc(SubSeq(m, 1, Len(m) - 1)), 0)

\* the fixed-width integer types with the magnitudes of their bounds
FixedWidth ==
  { [name |-> S_int8, signed |-> TRUE, lo |-> <<1,2,8>>, hi |-> <<1,2,7>>],
    [name |-> S_int16, signed |-> TRUE, lo |-> <<3,2,7,6,8>>,
     hi |-> <<3,2,7,6,7>>],
    [name |-> S_int32, signed |-> TRUE, lo |-> <<2,1,4,7,4,8,3,6,4,8>>,
     hi |-> <<2,1,4,7,4,8,3,6,4,7>>],
    [name |-> S_uint8, signed |-> FALSE, lo |-> <<0>>, hi |-> <<2,5,5>>],
    [name |-> S_uint16, signed |-> FALSE, lo |-> <<0>>,
     hi |-> <<6,5,5,3,5>>] }

\* C1: for a bare int8, int16, int32, uint8 or uint16 type, yang_verify_leaf
\* returns RE_OK for the exact upper bound and for a signed type's exact
\* lower bound, and INVALID_TYPE for upper bound + 1 and lower bound - 1.
C1_ExactBounds ==
  \A T \in FixedWidth :
    (LeafDone /\ yang = LeafNode(JStr(T.name))) =>
      /\ leaf = JInt(FALSE, T.hi) => result = RE_OK
      /\ leaf = JInt(FALSE, DecSucc(T.hi)) => result = INVALID_TYPE
      /\ (T.signed /\ leaf = JInt(TRUE, T.lo)) => result = RE_OK
      /\ leaf = JInt(TRUE, DecSucc(T.lo)) => result = INVALID_TYPE

AllElementsPass ==
  \A k \in ListIdx :
    ElemStr(k) # NULL /\ Outcome(DeclaredType, Deref(ElemStr(k))) = 0

HasDuplicate ==
  \E a \in ListIdx, b \in ListIdx :
    a < b /\ StrEq(Deref(ElemStr(a)), Deref(ElemStr(b)))

\* C2: when every element of the array has a string form and passes the
\* type check, yang_verify_leaf_list returns IDENTICAL_KEYS exactly when two
\* elements at distinct indices have equal string forms, and RE_OK otherwise.
C2_UniqueStringForms ==
  (ListDone /\ AllElementsPass) =>
    result = IF HasDuplicate THEN IDENTICAL_KEYS ELSE RE_OK

\* the number 1 and the string "1" are reported as identical keys
C2_Witness ==
  /\ ListDone
  /\ AllElementsPass
  /\ leaf = JArr(<<JInt(FALSE, <<1>>), JStr(<<"1">>)>>)
  /\ result = IDENTICAL_KEYS

AllHaveStrings == \A k \in ListIdx : ElemStr(k) # NULL
FailsAt(k) == Outcome(DeclaredType, Deref(ElemStr(k))) = 1
PassesAt(k) == Outcome(DeclaredType, Deref(ElemStr(k))) = 0
\* k is the first element that fails the type check, all before it pass
FirstFailure(k) == FailsAt(k) /\ \A h \in 0..(k - 1) : PassesAt(h)
DuplicateBefore(k) ==
  \E a \in 0..(k - 1) : \E b \in ListIdx :
    a < b /\ StrEq(Deref(ElemStr(a)), Deref(ElemStr(b)))

StringWithPatternList ==
  /\ json_object_get_type(DeclaredType) = "object"
  /\ StrEq(leaf_type_of(DeclaredType), S_string)
  /\ json_object_get_type(json_object_object_get_ex(DeclaredType, "pattern"))
       = "array"
  /\ json_object_array_length(
       json_object_object_get_ex(DeclaredType, "pattern")) > 0

MatchesSomePattern(v) ==
  LET patterns == json_object_object_get_ex(DeclaredType, "pattern")
  IN \E k \in 1..Len(patterns.elems) :
       /\ ~regcomp_fails(patterns.elems[k].str)
       /\ regexec_matches(patterns.elems[k].str, v)

\* C4: for a string type with a non-empty list of patterns the value is
\* accepted when it matches at least one pattern and rejected only when it
\* matches none.
C4_PatternAlternatives ==
  (LeafDone /\ DeclaredType # JNull /\ StringWithPatternList
     /\ json_object_get_type(leaf) = "string") =>
    (result = RE_OK <=> MatchesSomePattern(leaf.str))

IsScalar(v) == json_object_get_type(v) \notin {"object", "array"}

Unresolvable(t) ==
  /\ json_object_get_type(t) = "string"
  /\ str_to_yang_type(leaf_type_of(t)) = "NONE"
  /\ imported_lookup(leaf_type_of(t)).fail

\* C5: a type name that is not built-in and whose definition is missing or
\* cannot be parsed makes yang_verify_leaf return YANG_SCHEMA_ERROR for
\* every scalar value (here: every scalar value that has a string form, so
\* that the lookup is reached).
C5_UnresolvableIsSchemaError ==
  (LeafDone /\ IsScalar(leaf) /\ json_object_get_string(leaf) # NULL
     /\ DeclaredType # JNull /\ Unresolvable(DeclaredType)) =>
    result = YANG_SCHEMA_ERROR

\* the typedef chain from t never reaches a built-in type or a failed lookup
RECURSIVE ChainLoops(_, _)
ChainLoops(t, fuel) ==
  /\ str_to_yang_type(leaf_type_of(t)) \notin SwitchCases
  /\ ~imported_lookup(leaf_type_of(t)).fail
  /\ \/ fuel = 0
     \/ ChainLoops(imported_lookup(leaf_type_of(t)).type_object, fuel - 1)

CyclicChain == ChainLoops(DeclaredType, Cardinality(ImportedNames))

\* C6: a yang_verify_leaf call never dies in the typedef recursion, and
\* when the typedef chain of the declared type has a cycle the call returns
\* YANG_SCHEMA_ERROR.
C6_CycleGuard ==
  (op = "leaf" /\ DeclaredType # JNull /\ IsScalar(leaf) /\ leaf # JNull) =>
    /\ pc # "overflow"
    /\ (pc = "done" /\ CyclicChain) => result = YANG_SCHEMA_ERROR

\* C7: yang_verify_leaf returns INVALID_TYPE for every object and array
\* value, whatever the schema node is.
C7_NonScalarRejected ==
  (LeafDone /\ ~IsScalar(leaf)) => result = INVALID_TYPE

\* an object value against a schema node without a declared type
C7_Witness ==
  /\ LeafDone
  /\ leaf = JObj(NoFields)
  /\ yang = UntypedNode
  /\ result = INVALID_TYPE

\* C8: yang_verify_leaf returns INVALID_TYPE whenever the JSON kind of the
\* value is incompatible with the declared built-in category, and accepts
\* a JSON null for an empty-typed leaf.
C8_CoarseCompatibility ==
  (LeafDone /\ IsScalar(leaf) /\ DeclaredType # JNull
     /\ json_object_get_type(DeclaredType) = "string"
     /\ str_to_yang_type(leaf_type_of(DeclaredType)) # "NONE") =>
    LET category == str_to_yang_type(leaf_type_of(DeclaredType))
    IN /\ yang_verify_json_type(category, json_object_get_type(leaf)) = 1
            => result = INVALID_TYPE
       /\ (category = "EMPTY" /\ leaf = JNull) => result = RE_OK

MandatoryDone == pc = "done" /\ op = "mandatory"
KindOf(y) == json_get_string(y, YANG_TYPE)
MandatoryTrue(y) ==
  /\ YANG_MANDATORY \in DOMAIN y.fields
  /\ y.fields[YANG_MANDATORY] = JBool(TRUE)

\* C9 as claimed: yang_mandatory returns 1 only for a leaf or leaf-list
\* whose mandatory field is true, and 0 for a node without a kind.
C9_LeafKindsOnly ==
  MandatoryDone =>
    /\ result = 1 => /\ KindOf(yang) # NULL
                     /\ yang_is_leaf(Deref(KindOf(yang)))
                     /\ MandatoryTrue(yang)
    /\ KindOf(yang) = NULL => result = 0

\* C9: yang_mandatory returns 1 exactly when the mandatory field is present
\* and true and the node's kind is absent or denotes a leaf or leaf-list;
\* it returns 0 for every container and list node.
C9_LeafOrNoKind ==
  MandatoryDone =>
    (result = 1 <=>
       /\ MandatoryTrue(yang)
       /\ KindOf(yang) = NULL \/ yang_is_leaf(Deref(KindOf(yang))))

\* a node without a kind whose mandatory field is true
C9_Witness ==
  /\ MandatoryDone
  /\ KindOf(yang) = NULL
  /\ MandatoryTrue(yang)
  /\ result = 1

\* C10: a structured string type without a pattern field accepts every
\* string value.
C10_NoPatternNoConstraint ==
  (LeafDone /\ DeclaredType = JObj(YANG_LEAF_TYPE :> JStr(S_string))
     /\ json_object_get_type(leaf) = "string") =>
    result = RE_OK

====
